---- MODULE Spec2Model ----
(***************************************************************************)
(* CosmicQuery front end: the procedural star field (StarField.jsx) and    *)
(* the page it is the background of (App.jsx, QueryInterface.jsx).         *)
(*                                                                         *)
(* JavaScript numbers are IEEE-754 doubles and the position buffer is a    *)
(* Float32Array, so the arithmetic of the source is modelled by exact      *)
(* dyadic numbers (sign, magnitude, binary exponent) that are rounded to   *)
(* 53 or 24 significant bits, to nearest, ties to even, after every        *)
(* operation.  A magnitude is a little-endian sequence of 15-bit limbs,    *)
(* because a 53-bit significand does not fit TLC's integers.  No value of  *)
(* the program comes near the overflow or the subnormal range of either    *)
(* format, so exponents are unbounded here.                                *)
(***************************************************************************)
EXTENDS Integers, Sequences, FiniteSets

\* ------------------------------------------------------------ magnitudes
\* canonical when the last (most significant) limb is not 0; zero is << >>

LimbBits == 15
Base == 2 ^ LimbBits

Limb(a, i) == IF i >= 1 /\ i <= Len(a) THEN a[i] ELSE 0

RECURSIVE BTrim(_)
BTrim(a) == IF a = << >> THEN << >>
            ELSE IF a[Len(a)] = 0 THEN BTrim(SubSeq(a, 1, Len(a) - 1)) ELSE a

RECURSIVE BFromNat(_)
BFromNat(n) == IF n = 0 THEN << >> ELSE <<n % Base>> \o BFromNat(n \div Base)

RECURSIVE BAddC(_, _, _)
BAddC(a, b, c) ==
    IF a = << >> /\ b = << >> THEN (IF c = 0 THEN << >> ELSE <<c>>)
    ELSE LET t == Limb(a, 1) + Limb(b, 1) + c
         IN  <<t % Base>> \o BAddC(IF a = << >> THEN a ELSE Tail(a),
                                   IF b = << >> THEN b ELSE Tail(b), t \div Base)

BAdd(a, b) == BAddC(a, b, 0)

RECURSIVE BSubB(_, _, _)
BSubB(a, b, c) ==
    IF a = << >> THEN << >>
    ELSE LET t == Head(a) - Limb(b, 1) - c
         IN  <<t % Base>> \o BSubB(Tail(a), IF b = << >> THEN b ELSE Tail(b),
                                   IF t < 0 THEN 1 ELSE 0)

\* a - b, for a >= b
BSub(a, b) == BTrim(BSubB(a, b, 0))

RECURSIVE BCmpFrom(_, _, _)
BCmpFrom(a, b, i) == IF i = 0 THEN 0
                     ELSE IF a[i] # b[i] THEN (IF a[i] > b[i] THEN 1 ELSE -1)
                     ELSE BCmpFrom(a, b, i - 1)

\* -1, 0, 1 as a < b, a = b, a > b (both canonical)
BCmp(a, b) == IF Len(a) # Len(b) THEN (IF Len(a) > Len(b) THEN 1 ELSE -1)
              ELSE BCmpFrom(a, b, Len(a))

\* a * 2^k
BShl(a, k) ==
    LET q == k \div LimbBits
        r == k % LimbBits
        n == Len(a) + 1
    IN  IF a = << >> THEN << >>
        ELSE [i \in 1..q |-> 0] \o
             BTrim([i \in 1..n |-> ((Limb(a, i) * (2 ^ r)) % Base)
                                   + (Limb(a, i - 1) \div (2 ^ (LimbBits - r)))])

\* a divided by 2^k, rounded down
BShr(a, k) ==
    LET q == k \div LimbBits
        r == k % LimbBits
        n == Len(a) - q
    IN  IF n <= 0 THEN << >>
        ELSE BTrim([i \in 1..n |-> (Limb(a, i + q) \div (2 ^ r))
                                   + ((Limb(a, i + q + 1) % (2 ^ r)) * (2 ^ (LimbBits - r)))])

RECURSIVE BMulLimb(_, _, _)
\* a * x + c for one limb x
BMulLimb(a, x, c) ==
    IF a = << >> THEN (IF c = 0 THEN << >> ELSE <<c>>)
    ELSE LET t == Head(a) * x + c
         IN  <<t % Base>> \o BMulLimb(Tail(a), x, t \div Base)

RECURSIVE BMul(_, _)
BMul(a, b) == IF a = << >> \/ b = << >> THEN << >>
              ELSE BAdd(BTrim(BMulLimb(a, Head(b), 0)), BShl(BMul(a, Tail(b)), LimbBits))

RECURSIVE NatBits(_)
\* the number of bits of a natural number
NatBits(n) == IF n = 0 THEN 0 ELSE 1 + NatBits(n \div 2)

\* the number of bits of a canonical magnitude
BitLen(a) == IF a = << >> THEN 0 ELSE LimbBits * (Len(a) - 1) + NatBits(a[Len(a)])

\* --------------------------------------------------------------- dyadics
\* [neg, m, e] is the number (neg ? -1 : 1) * m * 2^e.  A value rounded to p
\* bits is kept with a magnitude of exactly p bits, so that equal doubles are
\* equal records; exact intermediate results are compared with DCmp.

DZero == [neg |-> FALSE, m |-> << >>, e |-> 0]

DNat(n) == [neg |-> FALSE, m |-> BFromNat(n), e |-> 0]

\* 2^k
DPow2(k) == [neg |-> FALSE, m |-> <<1>>, e |-> k]

DNeg(d) == IF d.m = << >> THEN d ELSE [d EXCEPT !.neg = ~d.neg]

DAbs(d) == [d EXCEPT !.neg = FALSE]

\* exact sum
DAdd(x, y) ==
    LET e  == IF x.e < y.e THEN x.e ELSE y.e
        a  == BShl(x.m, x.e - e)
        b  == BShl(y.m, y.e - e)
        c  == BCmp(a, b)
    IN  IF x.m = << >> THEN y
        ELSE IF y.m = << >> THEN x
        ELSE IF x.neg = y.neg THEN [neg |-> x.neg, m |-> BAdd(a, b), e |-> e]
        ELSE IF c = 0 THEN DZero
        ELSE IF c > 0 THEN [neg |-> x.neg, m |-> BSub(a, b), e |-> e]
        ELSE [neg |-> y.neg, m |-> BSub(b, a), e |-> e]

DSub(x, y) == DAdd(x, DNeg(y))

\* exact product
DMul(x, y) == IF x.m = << >> \/ y.m = << >> THEN DZero
              ELSE [neg |-> x.neg # y.neg, m |-> BMul(x.m, y.m), e |-> x.e + y.e]

\* -1, 0, 1 as x < y, x = y, x > y
DCmp(x, y) == LET d == DSub(x, y)
              IN  IF d.m = << >> THEN 0 ELSE IF d.neg THEN -1 ELSE 1

DLeq(x, y) == DCmp(x, y) <= 0

DEq(x, y) == DCmp(x, y) = 0

\* round to p significant bits, to nearest, ties to even
Round(d, p) ==
    LET L    == BitLen(d.m)
        r    == L - p
        kept == BShr(d.m, r)
        rest == BSub(d.m, BShl(kept, r))
        half == BShl(<<1>>, r - 1)
        c    == BCmp(rest, half)
        up   == c > 0 \/ (c = 0 /\ kept[1] % 2 = 1)
        q    == IF up THEN BAdd(kept, <<1>>) ELSE kept
    IN  IF d.m = << >> THEN DZero
        ELSE IF r <= 0 THEN [neg |-> d.neg, m |-> BShl(d.m, -r), e |-> d.e + r]
        ELSE IF BitLen(q) > p THEN [neg |-> d.neg, m |-> BShr(q, 1), e |-> d.e + r + 1]
        ELSE [neg |-> d.neg, m |-> q, e |-> d.e + r]

DoublePrecision == 53
SinglePrecision == 24

\* a number that is a double, as a double
AsDouble(d) == Round(d, DoublePrecision)

JsAdd(x, y) == Round(DAdd(x, y), DoublePrecision)
JsSub(x, y) == Round(DSub(x, y), DoublePrecision)
JsMul(x, y) == Round(DMul(x, y), DoublePrecision)
\* the store into a Float32Array element
ToFloat32(x) == Round(x, SinglePrecision)

LiteralLimbs == 7
RECURSIVE QuotLimbs(_, _, _)
\* the first k limbs after the point of r / den (0 <= r < den <= Base), least
\* significant first, above a low limb that is 1 when the rest is not zero
QuotLimbs(r, den, k) ==
    IF k = 0 THEN <<IF r = 0 THEN 0 ELSE 1>>
    ELSE QuotLimbs((r * Base) % den, den, k - 1) \o <<(r * Base) \div den>>

\* the double a decimal literal num/den (0 < num < den <= 2^15) denotes
JsLiteral(num, den) ==
    Round([neg |-> FALSE,
           m   |-> BTrim(QuotLimbs(num, den, LiteralLimbs)),
           e   |-> -(LimbBits * (LiteralLimbs + 1))], DoublePrecision)

\* ------------------------------------------------------------- bounds

\* the number of stars: stands for the 10000 of StarField.jsx lines 10-11
StarCount == 2
\* frame callbacks per mounted lifetime in Spec
MaxFrames == 3
\* frame callbacks in DriftSpec (one second at 60 frames a second, and a few more)
DriftFrames == 62
\* mounts of the star field, the first one included
MaxMounts == 2
\* executions of the Stars function body per mounted lifetime
MaxRenders == 2
\* teardown requests per instance
MaxTeardowns == 2
\* answered submissions of the query form
MaxSubmits == 2

\* ---------------------------------------------------- program constants

ItemSize == 3
FieldSpread == 2000
CameraZ == 5
CameraFov == 75

Half == JsLiteral(5, 10)
YStep == JsLiteral(2, 10000)
XStep == JsLiteral(1, 10000)

\* ------------------------------------------------------- Math.random()

\* Math.random() returns a double in [0, 1): a multiple of 2^-53 at the finest
RandomUnit == AsDouble(DPow2(-DoublePrecision))
MaxRandom == AsDouble(DSub(DNat(1), RandomUnit))
\* the two ends of the range
EdgeDraws == {DZero, MaxRandom}
\* the ends, their neighbours, the middle and its neighbours, and two others
RandomDraws == EdgeDraws \cup {RandomUnit, AsDouble(DSub(Half, RandomUnit)), Half,
                               AsDouble(DAdd(Half, RandomUnit)), JsLiteral(3, 10),
                               AsDouble(DSub(MaxRandom, RandomUnit))}

\* the streams of 3n draws a generator run of n stars may consume: every
\* draw for one star, the ends of the range for more
RandomStreams(n) == IF n <= 1 THEN [1..(ItemSize * n) -> RandomDraws]
                    ELSE [1..(ItemSize * n) -> EdgeDraws]
\* the streams a mount of the page draws from: one draw repeated
MountStreams(n) == {[i \in 1..(ItemSize * n) |-> d] : d \in EdgeDraws}

\* ------------------------------------------------- star field generator

\* the draw is not centred: Math.random() * 2000
AxisValueUncentred(r) == JsMul(r, DNat(FieldSpread))

\* (Math.random() - 0.5) * 2000
AxisValue(r) == JsMul(JsSub(r, Half), DNat(FieldSpread))

\* new Float32Array(len): len zeros
NewFloat32Array(len) == [i \in 1..len |-> DZero]

\* positions[idx] = v, idx counted from 0: the value is rounded to single
\* precision, and a store outside the array is ignored
StoreFloat32(arr, idx, v) ==
    IF idx >= 0 /\ idx < Len(arr) THEN [arr EXCEPT ![idx + 1] = ToFloat32(v)] ELSE arr

\* the stores step by two: positions[i * 2], positions[i * 2 + 1], ...
StarStoresStride2(i) ==
    << [idx |-> i * 2,     draw |-> i * 3 + 1],
       [idx |-> i * 2 + 1, draw |-> i * 3 + 2],
       [idx |-> i * 2 + 2, draw |-> i * 3 + 3] >>

\* the three stores of iteration i, in order: the index stored to, and which
\* draw of the stream the stored value is computed from
StarStores(i) ==
    << [idx |-> i * 3,     draw |-> i * 3 + 1],
       [idx |-> i * 3 + 1, draw |-> i * 3 + 2],
       [idx |-> i * 3 + 2, draw |-> i * 3 + 3] >>

\* the body of the for loop, iteration i
StarLoopBody(i, positions, rnd) ==
    LET p1 == StoreFloat32(positions, StarStores(i)[1].idx,
                           AxisValue(rnd[StarStores(i)[1].draw]))
        p2 == StoreFloat32(p1, StarStores(i)[2].idx,
                           AxisValue(rnd[StarStores(i)[2].draw]))
    IN  StoreFloat32(p2, StarStores(i)[3].idx, AxisValue(rnd[StarStores(i)[3].draw]))

\* the loop condition i < n
LoopContinues(i, n) == i < n

RECURSIVE StarLoop(_, _, _, _)
\* for (let i = 0; i < n; i++) { ... }
StarLoop(i, n, positions, rnd) ==
    IF LoopContinues(i, n) THEN StarLoop(i + 1, n, StarLoopBody(i, positions, rnd), rnd)
    ELSE positions

\* two components a star are allocated instead of three
AllocPositionsShort(n) == NewFloat32Array(n * 2)

\* an empty count is replaced by one star
AllocPositionsAtLeastOne(n) == NewFloat32Array((IF n = 0 THEN 1 ELSE n) * 3)

\* the allocation of the position buffer
AllocPositions(n) == NewFloat32Array(n * 3)

\* new Float32Array(len) throws a RangeError when len is negative
AllocThrows(n) == n * 3 < 0

\* the function given to useMemo, for n stars
GenerateStars(n, rnd) == StarLoop(0, n, AllocPositions(n), rnd)

\* count={starPositions.length / 3}
AttributeCount(positions) == Len(positions) \div ItemSize

\* ------------------------------------------------------------- the state

VARIABLES
    mounted,        \* the StarField (Canvas and Stars) is mounted
    mounts,         \* mounts so far
    renders,        \* executions of Stars() in this lifetime
    genRuns,        \* runs of the generator in this lifetime
    starPositions,  \* the memoised position buffer
    starsRef,       \* starsRef.current: << >> when null, else <<rotation of the points object>>
    subscribed,     \* the useFrame callback is subscribed to the render loop
    contextLost,    \* the WebGL context of the canvas is lost
    frames,         \* frame callbacks run in this lifetime
    renderCalls,    \* renders the loop asked of the renderer in this lifetime
    draws,          \* renders that drew on the surface in this lifetime
    drawn,          \* the rotation last drawn with, << >> before the first draw
    prevFrames,     \* frame callbacks of the previous lifetime
    teardowns,      \* teardown requests on this instance
    released,       \* releases of the loop subscription, the surface and the buffer
    hostError,      \* an exception left the frame callback
    camera,         \* the camera of the Canvas
    query, responses, loading, inflight,   \* QueryInterface
    alerts,         \* alert() calls of handleSubmit
    escaped,        \* an exception left handleSubmit
    handled,        \* how the last call of handleSubmit went: "blank" or "sent"
    cleared,        \* the text of the input that the last setQuery('') replaced
    genN, genRnd, genOut, genPc,           \* a generator run on its own
    genI, genLog,                          \* its loop counter and the indices it stored to
    webgl,          \* the browser can give the canvas a WebGL context
    pageUp,         \* the tree of App is rendered: header, hero, query interface, footer
    fallback,       \* a static background is rendered in place of the star field
    failures,       \* errors that left the tree of App uncaught
    nasaCache,      \* Redis: key -> << >> or <<body>>
    nasaUp,         \* api.nasa.gov answers
    nasaResult,     \* the last call of NASAService: its key, the state it met, its return
    nasaFetched,    \* key -> the body last fetched from the API, << >> if none
    apodMounted,    \* APODViewer: an instance is mounted
    apodMount,      \* the number of the instance mounted last
    apodRenders,    \* renders of the mounted instance after its first
    apod,           \* useState(null): << >>, or <<data>>
    apodLoading,    \* useState(true)
    apodError,      \* useState(null): << >>, or <<message>>
    apodFetches,    \* calls of fetchApod by the instance mounted last
    apodPending     \* the instances whose fetch has not settled

fieldVars == <<mounted, mounts, renders, genRuns, starPositions, starsRef, subscribed,
               contextLost, frames, renderCalls, draws, drawn, prevFrames, teardowns,
               released, hostError, camera>>
queryVars == <<query, responses, loading, inflight, alerts, escaped, handled,
               cleared>>
genVars == <<genN, genRnd, genOut, genPc, genI, genLog>>
bootVars == <<webgl, pageUp, fallback, failures>>
nasaVars == <<nasaCache, nasaUp, nasaResult, nasaFetched>>
apodVars == <<apodMounted, apodMount, apodRenders, apod, apodLoading, apodError,
              apodFetches, apodPending>>
vars == <<fieldVars, queryVars, genVars, bootVars, nasaVars, apodVars>>

\* ------------------------------------------------------------ star field

\* the rotation is kept outside the component and survives a remount
NewPointsCarried == IF drawn # << >> THEN drawn ELSE <<[x |-> DZero, y |-> DZero]>>

\* a new THREE.Points: rotation is Euler(0, 0, 0)
NewPoints == <<[x |-> DZero, y |-> DZero]>>

NothingReleased == [loop |-> 0, surface |-> 0, buffer |-> 0]

CanvasCamera == [position |-> <<0, 0, CameraZ>>, fov |-> CameraFov]

\* useMemo(factory, []) on the mounting render: the factory runs
MemoOnMount(rnd) == [value |-> GenerateStars(StarCount, rnd), runs |-> 1]

\* useMemo without the dependency list: the factory runs on every render
MemoOnRerenderNoDeps(cached, runs, rnd) ==
    [value |-> GenerateStars(StarCount, rnd), runs |-> runs + 1]

\* useMemo(factory, []) on a later render: the dependencies are unchanged,
\* so the cached value is returned and the factory does not run
MemoOnRerender(cached, runs, rnd) == [value |-> cached, runs |-> runs]

\* <points rotation={[0, 0, 0]}>: every render applies the prop again
RerenderPointsReset(ref) == IF ref = << >> THEN ref ELSE <<[x |-> DZero, y |-> DZero]>>

\* what a re-render of Stars does to the mounted points object: <points>
\* is given no rotation prop, so nothing is applied to it
RerenderPoints(ref) == ref

\* the two increments exchanged
FrameCallbackSwapped(ref) ==
    IF ref # << >>
    THEN [ref |-> <<[y |-> JsAdd(ref[1].y, XStep), x |-> JsAdd(ref[1].x, YStep)]>>,
          threw |-> FALSE]
    ELSE [ref |-> ref, threw |-> FALSE]

\* the horizontal angle is left as it is
FrameCallbackYOnly(ref) ==
    IF ref # << >>
    THEN [ref |-> <<[y |-> JsAdd(ref[1].y, YStep), x |-> ref[1].x]>>, threw |-> FALSE]
    ELSE [ref |-> ref, threw |-> FALSE]

\* the useFrame callback: [ref after the call, whether it threw]
FrameCallback(ref) ==
    IF ref # << >>
    THEN [ref |-> <<[y |-> JsAdd(ref[1].y, YStep), x |-> JsAdd(ref[1].x, XStep)]>>,
          threw |-> FALSE]
    ELSE [ref |-> ref, threw |-> FALSE]

\* the rotation of the points object the renderer reads when the loop renders
\* the frame: the loop runs the subscribers first and renders afterwards
SceneAtRender(before, after) == after

\* WebGLRenderer.render does nothing while the context is lost
RendererDraws(lost) == ~lost

\* the callback bakes the rotation into the buffer: the first coordinate is
\* mirrored
PositionsRewrittenByFrame(positions) ==
    IF positions = << >> THEN positions ELSE [positions EXCEPT ![1] = DNeg(@)]

\* the position buffer after a frame: the callback writes to the rotation of
\* the points object only and the renderer reads the buffer, so it is as before
PositionsAfterFrame(positions) == positions

\* every request releases, mounted or not
TeardownReleasesAlways(isMounted, rel) ==
    [loop |-> rel.loop + 1, surface |-> rel.surface + 1, buffer |-> rel.buffer + 1]

\* the unmount stops the loop and drops the buffer but keeps the renderer
TeardownKeepsSurface(isMounted, rel) ==
    IF isMounted
    THEN [loop |-> rel.loop + 1, surface |-> rel.surface, buffer |-> rel.buffer + 1]
    ELSE rel

\* the releases of a teardown request
TeardownReleases(isMounted, rel) ==
    IF isMounted
    THEN [loop |-> rel.loop + 1, surface |-> rel.surface + 1, buffer |-> rel.buffer + 1]
    ELSE rel

\* the subscription outlives the component
SubscribedAfterUnmountLeak == TRUE

\* whether unmounting leaves the frame callback subscribed
SubscribedAfterUnmount == FALSE

FieldInit ==
    /\ mounted = TRUE /\ mounts = 1 /\ renders = 1
    /\ \E rnd \in MountStreams(StarCount) :
          /\ starPositions = MemoOnMount(rnd).value
          /\ genRuns = MemoOnMount(rnd).runs
    /\ frames = 0 /\ renderCalls = 0 /\ draws = 0 /\ drawn = << >>
    /\ starsRef = NewPoints
    /\ subscribed = TRUE /\ contextLost = FALSE
    /\ prevFrames = 0 /\ teardowns = 0 /\ released = NothingReleased
    /\ hostError = FALSE
    /\ camera = CanvasCamera

\* what mounting <StarField /> does to the star field: Canvas creates the
\* surface and the camera, Stars runs for the first time, the points object is
\* created and the ref set, and the frame callback is subscribed
MountField ==
    /\ mounted' = TRUE /\ mounts' = mounts + 1 /\ renders' = 1
    /\ \E rnd \in MountStreams(StarCount) :
          /\ starPositions' = MemoOnMount(rnd).value
          /\ genRuns' = MemoOnMount(rnd).runs
    /\ starsRef' = NewPoints
    /\ subscribed' = TRUE /\ contextLost' = FALSE
    /\ prevFrames' = frames
    /\ frames' = 0 /\ renderCalls' = 0 /\ draws' = 0 /\ drawn' = << >>
    /\ teardowns' = 0 /\ released' = NothingReleased
    /\ camera' = CanvasCamera
    /\ UNCHANGED hostError

\* <StarField /> is mounted again
Mount ==
    /\ ~mounted /\ mounts < MaxMounts
    /\ MountField
    /\ UNCHANGED <<queryVars, genVars, bootVars, nasaVars, apodVars>>

\* Stars() runs again while mounted
Rerender ==
    /\ mounted /\ renders < MaxRenders
    /\ renders' = renders + 1
    /\ \E rnd \in MountStreams(StarCount) :
          /\ starPositions' = MemoOnRerender(starPositions, genRuns, rnd).value
          /\ genRuns' = MemoOnRerender(starPositions, genRuns, rnd).runs
    /\ starsRef' = RerenderPoints(starsRef)
    /\ UNCHANGED <<mounted, mounts, subscribed, contextLost, frames, renderCalls, draws,
                   drawn, prevFrames, teardowns, released, hostError, camera,
                   queryVars, genVars, bootVars, nasaVars, apodVars>>

\* one turn of the render loop: the subscribed callback, then the render
Frame(limit) ==
    /\ subscribed /\ frames < limit
    /\ LET cb == FrameCallback(starsRef)
       IN  /\ starsRef' = cb.ref
           /\ hostError' = (hostError \/ cb.threw)
           /\ frames' = frames + 1
           /\ renderCalls' = renderCalls + 1
           /\ IF RendererDraws(contextLost)
              THEN /\ draws' = draws + 1
                   /\ drawn' = SceneAtRender(starsRef, cb.ref)
              ELSE UNCHANGED <<draws, drawn>>
           /\ starPositions' = PositionsAfterFrame(starPositions)
    /\ UNCHANGED <<mounted, mounts, renders, genRuns, subscribed,
                   contextLost, prevFrames, teardowns, released, camera,
                   queryVars, genVars, bootVars, nasaVars, apodVars>>

\* the browser takes the WebGL context away
ContextLost ==
    /\ mounted /\ ~contextLost
    /\ contextLost' = TRUE
    /\ UNCHANGED <<mounted, mounts, renders, genRuns, starPositions, starsRef, subscribed,
                   frames, renderCalls, draws, drawn, prevFrames, teardowns, released,
                   hostError, camera, queryVars, genVars, bootVars, nasaVars,
                   apodVars>>

\* the browser gives it back
ContextRestored ==
    /\ mounted /\ contextLost
    /\ contextLost' = FALSE
    /\ UNCHANGED <<mounted, mounts, renders, genRuns, starPositions, starsRef, subscribed,
                   frames, renderCalls, draws, drawn, prevFrames, teardowns, released,
                   hostError, camera, queryVars, genVars, bootVars, nasaVars,
                   apodVars>>

\* the host asks for the teardown of this instance: the first request unmounts
\* it, a later one finds nothing mounted
Teardown ==
    /\ teardowns < MaxTeardowns
    /\ teardowns' = teardowns + 1
    /\ released' = TeardownReleases(mounted, released)
    /\ IF mounted
       THEN /\ mounted' = FALSE
            /\ subscribed' = SubscribedAfterUnmount
            /\ starsRef' = << >>
            /\ starPositions' = << >>
            /\ contextLost' = FALSE
       ELSE UNCHANGED <<mounted, subscribed, starsRef, starPositions, contextLost>>
    /\ UNCHANGED <<mounts, renders, genRuns, frames, renderCalls, draws, drawn,
                   prevFrames, hostError, camera, queryVars, genVars, bootVars, nasaVars,
                   apodVars>>

\* ------------------------------------------------------- query interface

\* A text is a sequence of characters; a word stands for its characters.
Space == " "
Andromeda == <<"What is the Andromeda Galaxy?">>
BlackHoles == <<"How do black holes form?">>
QuickQuestions == {Andromeda, BlackHoles}
\* what the user may type into the input
TypedTexts == {<< >>, <<Space>>, <<Space, "Why?">>}

RECURSIVE TrimStart(_)
TrimStart(t) == IF t # << >> /\ Head(t) = Space THEN TrimStart(Tail(t)) ELSE t

RECURSIVE TrimEnd(_)
TrimEnd(t) == IF t # << >> /\ t[Len(t)] = Space THEN TrimEnd(SubSeq(t, 1, Len(t) - 1)) ELSE t

\* String.prototype.trim
Trim(t) == TrimEnd(TrimStart(t))

SeededResponses == <<[id |-> 1, question |-> <<"What is a black hole?">>]>>

QueryInit ==
    /\ query = << >>
    /\ responses = SeededResponses
    /\ loading = FALSE
    /\ inflight = << >>
    /\ alerts = 0 /\ escaped = FALSE /\ handled = "none" /\ cleared = << >>

\* onChange of the input, which is disabled while loading
TypeQuery ==
    /\ ~loading
    /\ \E t \in TypedTexts : query' = t
    /\ UNCHANGED <<responses, loading, inflight, alerts, escaped, handled, cleared,
                   fieldVars, genVars, bootVars, nasaVars, apodVars>>

\* onClick of a quick-question button
QuickQuestion ==
    /\ \E t \in QuickQuestions : query' = t
    /\ UNCHANGED <<responses, loading, inflight, alerts, escaped, handled, cleared,
                   fieldVars, genVars, bootVars, nasaVars, apodVars>>

\* the form can be submitted whatever the state of the request
CanSubmitAlways(l) == TRUE

\* the input and the submit button are disabled={loading}: the form can be
\* submitted only while loading is false
CanSubmit(l) == ~l

\* if (!query) return;
IsEmpty(q) == q = << >>

\* !query.trim()
IsBlank(q) == Trim(q) = << >>

\* the requests started so far: answered, failed and pending
Requests == (Len(responses) - Len(SeededResponses)) + alerts + Len(inflight)

\* handleSubmit up to the await of fetch; the closure keeps the query and the
\* responses of the render the handler belongs to
Submit ==
    /\ CanSubmit(loading)
    /\ Requests < MaxSubmits
    /\ IF IsBlank(query)
       THEN /\ handled' = "blank"
            /\ UNCHANGED <<loading, inflight>>
       ELSE /\ handled' = "sent"
            /\ loading' = TRUE
            /\ inflight' = Append(inflight, [question |-> query, seen |-> responses])
    /\ UNCHANGED <<query, responses, alerts, escaped, cleared, fieldVars, genVars, bootVars,
                   nasaVars, apodVars>>

\* the new entry is put at the end: [...responses, newResponse]
AppendResponse(newResponse, seen) == seen \o <<newResponse>>

\* [newResponse, ...responses]
PrependResponse(newResponse, seen) == <<newResponse>> \o seen

\* setLoading(false) is the last statement of the try block
LoadingAfterCatchKept(l) == l

\* loading once the catch block has run: finally { setLoading(false) }
LoadingAfterCatch(l) == FALSE

\* id: responses.length
NewResponseIdNoIncrement(seen) == Len(seen)

\* id: responses.length + 1
NewResponseId(seen) == Len(seen) + 1

\* the question is read from the input as it is when the answer arrives
QuestionStoredCurrent(captured, current) == current

\* question: query, the query of the render the handler was created in
QuestionStored(captured, current) == captured

\* the input is cleared only if it still holds the question that was sent
QueryAfterSuccessIfSame(captured, current) ==
    IF current = captured THEN << >> ELSE current

\* setQuery('')
QueryAfterSuccess(captured, current) == << >>

\* the ways a request fails: fetch rejects, the status is not OK, or
\* response.json() rejects
FailureKinds == {"rejected", "status", "body"}

\* only the rejection of fetch is handled
CatchesRejectionOnly(kind) == kind = "rejected"

\* catch (error) takes whatever is thrown in the try block
Catches(kind) == TRUE

\* a sequence without its i-th element
Without(seq, i) == SubSeq(seq, 1, i - 1) \o SubSeq(seq, i + 1, Len(seq))

\* the fetch of a pending call resolves with an OK status and a JSON body
FetchOk ==
    /\ \E i \in 1..Len(inflight) :
          LET c == inflight[i]
          IN  /\ responses' = PrependResponse(
                                  [id |-> NewResponseId(c.seen),
                                   question |-> QuestionStored(c.question, query)],
                                  c.seen)
              /\ query' = QueryAfterSuccess(c.question, query)
              /\ cleared' = query
              /\ inflight' = Without(inflight, i)
    /\ loading' = FALSE
    /\ UNCHANGED <<alerts, escaped, handled, fieldVars, genVars, bootVars, nasaVars,
                   apodVars>>

\* the request of a pending call fails: the catch block logs the error and
\* shows the alert, the finally block runs
FetchFail ==
    /\ \E i \in 1..Len(inflight) : inflight' = Without(inflight, i)
    /\ \E kind \in FailureKinds :
          IF Catches(kind)
          THEN alerts' = alerts + 1 /\ escaped' = escaped
          ELSE alerts' = alerts /\ escaped' = TRUE
    /\ loading' = LoadingAfterCatch(loading)
    /\ UNCHANGED <<query, responses, handled, cleared, fieldVars, genVars, bootVars,
                   nasaVars, apodVars>>

\* -------------------------------------------------------------- the page

\* StarField returns <Canvas> in a div and nothing that could stand in for it
StaticFallback == FALSE

\* App renders <StarField /> directly: no error boundary is around it
ErrorBoundaryInApp == FALSE

\* the page as it is once App has rendered with the star field
PageUp ==
    /\ webgl = TRUE /\ pageUp = TRUE /\ fallback = FALSE /\ failures = 0

\* before App renders for the first time
PageDown ==
    /\ mounted = FALSE /\ mounts = 0 /\ renders = 0 /\ genRuns = 0
    /\ starPositions = << >> /\ starsRef = << >>
    /\ subscribed = FALSE /\ contextLost = FALSE
    /\ frames = 0 /\ renderCalls = 0 /\ draws = 0 /\ drawn = << >>
    /\ prevFrames = 0 /\ teardowns = 0 /\ released = NothingReleased
    /\ hostError = FALSE /\ camera = << >>
    /\ webgl \in BOOLEAN
    /\ pageUp = FALSE /\ fallback = FALSE /\ failures = 0

\* App renders for the first time.  With a WebGL context the star field
\* mounts.  Without one the renderer cannot be created and Canvas throws: the
\* error meets no boundary in App, so it leaves the tree, which is removed
\* whole, and nothing is rendered in place of the star field.
AppMount ==
    /\ ~pageUp /\ failures = 0
    /\ IF webgl
       THEN /\ MountField
            /\ pageUp' = TRUE
            /\ UNCHANGED <<fallback, failures>>
       ELSE /\ UNCHANGED fieldVars
            /\ failures' = failures + 1
            /\ pageUp' = ErrorBoundaryInApp
            /\ fallback' = StaticFallback
    /\ UNCHANGED <<webgl, queryVars, genVars, nasaVars, apodVars>>

\* ------------------------------------------------------------ NASAService

None == "None"
\* f"apod:{date or 'today'}"
ApodKey(date) == <<"apod", IF date = None THEN "today" ELSE date>>
\* f"neo:{start_date}:{end_date}"
NeoKey(start, end) == <<"neo", start, end>>
\* f"mars:{sol}:{camera}"
MarsKey(sol, cam) == <<"mars", sol, cam>>

ApodDates == {None, "2024-01-01"}
NeoRanges == {<<"2024-01-01", "2024-01-07">>}
MarsArgs == {<<1000, "FHAZ">>}
NasaKeys == {ApodKey(d) : d \in ApodDates}
            \cup {NeoKey(r[1], r[2]) : r \in NeoRanges}
            \cup {MarsKey(a[1], a[2]) : a \in MarsArgs}

\* the JSON bodies the API may answer with: an empty object, or some data
EmptyDict == "{}"
ApiBodies == {EmptyDict, "data"}
\* the truth value of a dict, or of None
Truthy(opt) == opt # << >> /\ opt[1] # EmptyDict

\* _get_cached: the stored bytes, if any, parsed; else None.  The bytes of a
\* stored body are never empty, so every stored body is returned.
GetCached(cache, key) == cache[key]

\* _set_cache: redis setex
SetCache(cache, key, data) == [cache EXCEPT ![key] = <<data>>]

ErrorDict == [kind |-> "error"]
DataDict(body) == [kind |-> "data", body |-> body]

\* the call ends with an exception
Raised == [kind |-> "raised"]

\* what requests.get, raise_for_status and response.json raise: no
\* connection, no answer within the timeout, a 4xx or 5xx status, a body
\* that is not JSON
RequestFailures == {"ConnectionError", "Timeout", "HTTPError", "JSONDecodeError"}

\* except requests.ConnectionError
IsConnectionError(failure) == failure = "ConnectionError"

\* except requests.RequestException: every exception of requests 2.32.3 is
\* one, its JSONDecodeError included
IsRequestException(failure) == failure \in RequestFailures

\* the body shared by get_apod, get_neo_feed and get_mars_photos, for the
\* cache key of the call, the state of the API, the body it would answer
\* with and the way the request would fail: [the cache after the call, what
\* the call returns, a fetch succeeded, the failure of the request if it
\* was made and failed]
NasaGet(cache, key, up, body, failure) ==
    LET cached == GetCached(cache, key)
    IN  IF Truthy(cached)
        THEN [cache |-> cache, out |-> DataDict(cached[1]), fetched |-> FALSE,
              failed |-> << >>]
        ELSE IF up
             THEN [cache |-> SetCache(cache, key, body), out |-> DataDict(body),
                   fetched |-> TRUE, failed |-> << >>]
             ELSE [cache |-> cache,
                   out |-> IF IsRequestException(failure) THEN ErrorDict ELSE Raised,
                   fetched |-> FALSE, failed |-> <<failure>>]

NasaInit ==
    /\ nasaCache = [k \in NasaKeys |-> << >>]
    /\ nasaUp = TRUE
    /\ nasaResult = << >>
    /\ nasaFetched = [k \in NasaKeys |-> << >>]

\* a call of one of the three methods with the cache key it computes
NasaCall(key) ==
    \E body \in ApiBodies, failure \in RequestFailures :
        LET r == NasaGet(nasaCache, key, nasaUp, body, failure)
        IN  /\ nasaCache' = r.cache
            /\ nasaResult' = <<[key |-> key, up |-> nasaUp, had |-> nasaFetched[key],
                                 failed |-> r.failed, out |-> r.out]>>
            /\ nasaFetched' = IF r.fetched THEN [nasaFetched EXCEPT ![key] = <<body>>]
                               ELSE nasaFetched
            /\ UNCHANGED <<nasaUp, fieldVars, queryVars, genVars, bootVars, apodVars>>

GetApod == \E date \in ApodDates : NasaCall(ApodKey(date))
GetNeoFeed == \E r \in NeoRanges : NasaCall(NeoKey(r[1], r[2]))
GetMarsPhotos == \E a \in MarsArgs : NasaCall(MarsKey(a[1], a[2]))

\* the expiration given to setex has passed for a key
CacheExpire ==
    \E k \in NasaKeys :
        /\ nasaCache[k] # << >>
        /\ nasaCache' = [nasaCache EXCEPT ![k] = << >>]
        /\ UNCHANGED <<nasaUp, nasaResult, nasaFetched, fieldVars, queryVars, genVars,
                       bootVars, apodVars>>

\* the requests to api.nasa.gov start to fail, or succeed again
ApiDown ==
    /\ nasaUp /\ nasaUp' = FALSE
    /\ UNCHANGED <<nasaCache, nasaResult, nasaFetched, fieldVars, queryVars, genVars,
                   bootVars, apodVars>>

ApiUp ==
    /\ ~nasaUp /\ nasaUp' = TRUE
    /\ UNCHANGED <<nasaCache, nasaResult, nasaFetched, fieldVars, queryVars, genVars,
                   bootVars, apodVars>>

\* --------------------------------------------------------------- APODViewer

\* the bodies the backend answers with under an OK status: a picture, a
\* video, or the error value of NASAService
ApodBodies == {"image", "video", "error"}

\* the ways fetchApod fails: fetch rejects, the status is not OK, or
\* response.json() rejects
ApodFailures == {"rejected", "status", "body"}

\* e.message of what the catch block is given
ErrorMessage(kind) ==
    CASE kind = "rejected" -> "Failed to fetch"
      [] kind = "status" -> "HTTP error! status: 500"
      [] kind = "body" -> "Unexpected token"

\* useEffect without a dependency array: the effect runs after every render
EffectOnRerenderNoDeps(fetches) == fetches + 1

\* useEffect(..., []): the effect does not run again when the component
\* renders again
EffectOnRerender(fetches) == fetches

\* no instance has been mounted
ApodInit ==
    /\ apodMounted = FALSE /\ apodMount = 0 /\ apodRenders = 0
    /\ apod = << >> /\ apodLoading = FALSE /\ apodError = << >>
    /\ apodFetches = 0 /\ apodPending = {}

\* an instance mounts: its three states get their initial values and its
\* effect calls fetchApod, which runs up to the await of fetch
ApodMount ==
    /\ ~apodMounted /\ apodMount < MaxMounts
    /\ apodMounted' = TRUE
    /\ apodMount' = apodMount + 1
    /\ apodRenders' = 0
    /\ apod' = << >> /\ apodLoading' = TRUE /\ apodError' = << >>
    /\ apodFetches' = 1
    /\ apodPending' = apodPending \cup {apodMount + 1}
    /\ UNCHANGED <<fieldVars, queryVars, genVars, bootVars, nasaVars>>

\* the mounted instance renders again
ApodRerender ==
    /\ apodMounted /\ apodRenders < MaxRenders
    /\ apodRenders' = apodRenders + 1
    /\ apodFetches' = EffectOnRerender(apodFetches)
    /\ UNCHANGED <<apodMounted, apodMount, apod, apodLoading, apodError, apodPending,
                   fieldVars, queryVars, genVars, bootVars, nasaVars>>

\* the instance is unmounted; a fetch it started stays pending
ApodUnmount ==
    /\ apodMounted /\ apodMounted' = FALSE
    /\ UNCHANGED <<apodMount, apodRenders, apod, apodLoading, apodError, apodFetches,
                   apodPending, fieldVars, queryVars, genVars, bootVars, nasaVars>>

\* the instance whose fetch settles is the one mounted now; the setters of
\* an instance that is not mounted change nothing
ApodCurrent(id) == apodMounted /\ id = apodMount

\* a pending fetch resolves with an OK status and a JSON body
ApodOk ==
    /\ \E id \in apodPending, data \in ApodBodies :
          /\ apodPending' = apodPending \ {id}
          /\ IF ApodCurrent(id)
             THEN apod' = <<data>> /\ apodLoading' = FALSE
             ELSE UNCHANGED <<apod, apodLoading>>
    /\ UNCHANGED <<apodMounted, apodMount, apodRenders, apodError, apodFetches,
                   fieldVars, queryVars, genVars, bootVars, nasaVars>>

\* a pending fetch fails: the catch block keeps the message, the finally
\* block runs
ApodFail ==
    /\ \E id \in apodPending, kind \in ApodFailures :
          /\ apodPending' = apodPending \ {id}
          /\ IF ApodCurrent(id)
             THEN apodError' = <<ErrorMessage(kind)>> /\ apodLoading' = FALSE
             ELSE UNCHANGED <<apodError, apodLoading>>
    /\ UNCHANGED <<apodMounted, apodMount, apodRenders, apod, apodFetches,
                   fieldVars, queryVars, genVars, bootVars, nasaVars>>

\* ------------------------------------------------- a generator run alone

GenIdle ==
    /\ genN = 0 /\ genRnd = << >> /\ genOut = << >> /\ genPc = "idle"
    /\ genI = 0 /\ genLog = << >>

\* the counts a run may be given: the valid ones, and one that is not
StarCounts == {-1} \cup (0..StarCount)

GenInit ==
    /\ genN \in StarCounts
    /\ genRnd \in RandomStreams(genN)
    /\ genOut = << >>
    /\ genPc = "start"
    /\ genI = 0 /\ genLog = << >>

\* the generator runs to completion on its inputs
GenRun ==
    /\ genPc = "start"
    /\ IF AllocThrows(genN)
       THEN genPc' = "error" /\ genOut' = genOut
       ELSE genPc' = "done" /\ genOut' = GenerateStars(genN, genRnd)
    /\ UNCHANGED <<genN, genRnd, genI, genLog, fieldVars, queryVars, bootVars, nasaVars,
                   apodVars>>

\* the generator statement by statement: the allocation and let i = 0
GenAlloc ==
    /\ genPc = "start"
    /\ IF AllocThrows(genN)
       THEN genPc' = "error" /\ genOut' = genOut
       ELSE genPc' = "loop" /\ genOut' = AllocPositions(genN)
    /\ genI' = 0
    /\ UNCHANGED <<genN, genRnd, genLog, fieldVars, queryVars, bootVars, nasaVars,
                   apodVars>>

\* one iteration of the loop: the body, then i++
GenIter ==
    /\ genPc = "loop" /\ LoopContinues(genI, genN)
    /\ genOut' = StarLoopBody(genI, genOut, genRnd)
    /\ genLog' = genLog \o [k \in 1..ItemSize |-> StarStores(genI)[k].idx]
    /\ genI' = genI + 1
    /\ UNCHANGED <<genN, genRnd, genPc, fieldVars, queryVars, bootVars, nasaVars,
                   apodVars>>

\* the loop condition fails: return positions
GenExit ==
    /\ genPc = "loop" /\ ~LoopContinues(genI, genN)
    /\ genPc' = "done"
    /\ UNCHANGED <<genN, genRnd, genOut, genI, genLog, fieldVars, queryVars, bootVars, nasaVars,
                   apodVars>>

\* ------------------------------------------------------- specifications

Init == FieldInit /\ QueryInit /\ GenIdle /\ PageUp /\ NasaInit /\ ApodInit

FrameStep == Frame(MaxFrames)

Next ==
    \/ Mount
    \/ Rerender
    \/ FrameStep
    \/ ContextLost
    \/ ContextRestored
    \/ Teardown

\* the star field through its mounted lifetimes
Spec == Init /\ [][Next]_vars

PageNext ==
    \/ Rerender
    \/ FrameStep
    \/ ContextLost
    \/ ContextRestored
    \/ Teardown
    \/ TypeQuery
    \/ QuickQuestion
    \/ Submit
    \/ FetchOk
    \/ FetchFail

\* the page: one lifetime of the star field behind the query interface
PageSpec == Init /\ [][PageNext]_vars

DriftStep == Frame(DriftFrames)

DriftNext ==
    \/ DriftStep
    \/ Rerender

\* one mounted lifetime of the star field, for a second of frames and more
DriftSpec == Init /\ [][DriftNext]_vars

GenSpecInit == FieldInit /\ QueryInit /\ GenInit /\ PageUp /\ NasaInit /\ ApodInit

GenNext == GenRun

\* the generator as a function of the star count and the random draws
GenSpec == GenSpecInit /\ [][GenNext]_vars

QueryNext ==
    \/ TypeQuery
    \/ QuickQuestion
    \/ Submit
    \/ FetchOk
    \/ FetchFail

\* the query interface alone; the promise of a fetch settles
QuerySpec == Init /\ [][QueryNext]_vars /\ WF_vars(FetchOk \/ FetchFail)

BootInit == PageDown /\ QueryInit /\ GenIdle /\ NasaInit /\ ApodInit

\* the page once it is up
BootPage == pageUp /\ PageNext

BootNext ==
    \/ AppMount
    \/ BootPage

\* the page from its first render, with or without WebGL
BootSpec == BootInit /\ [][BootNext]_vars

NasaNext ==
    \/ GetApod
    \/ GetNeoFeed
    \/ GetMarsPhotos
    \/ CacheExpire
    \/ ApiDown
    \/ ApiUp

\* the NASA service of the backend over its cache and the API
NasaSpec == Init /\ [][NasaNext]_vars

ApodNext ==
    \/ ApodMount
    \/ ApodRerender
    \/ ApodUnmount
    \/ ApodOk
    \/ ApodFail

\* the lifetimes of the APOD viewer
ApodSpec == Init /\ [][ApodNext]_vars

LoopNext ==
    \/ GenAlloc
    \/ GenIter
    \/ GenExit

\* the generator statement by statement
LoopSpec == GenSpecInit /\ [][LoopNext]_vars

\* ------------------------------------------------------------ properties

HalfExtent == DNat(FieldSpread \div 2)
ZeroRotation == [x |-> DZero, y |-> DZero]

\* C1: whenever the star field is mounted, on the first mount and on every
\* later one, the position buffer holds exactly 3 * StarCount components and
\* the count handed to the geometry, length / 3, is StarCount.
CountInvariant ==
    mounted => /\ Len(starPositions) = ItemSize * StarCount
               /\ Len(starPositions) % ItemSize = 0
               /\ AttributeCount(starPositions) = StarCount

CountOnSecondMount ==
    /\ mounted /\ mounts >= 2
    /\ AttributeCount(starPositions) = StarCount

\* C2: for every draw in [0, 1), (draw - 0.5) * 2000 lies in [-1000, 1000],
\* and so does every component the generator stores in the buffer.
BoundsInvariant ==
    genPc = "done" =>
        /\ \A j \in 1..Len(genRnd) : DLeq(DAbs(AxisValue(genRnd[j])), HalfExtent)
        /\ \A i \in 1..Len(genOut) : DLeq(DAbs(genOut[i]), HalfExtent)

\* a run that stored both ends of the range: -1000 from the draw 0, and 1000
\* from the largest draw below 1, whose value 999.9999999999998 rounds up
BoundsBothEnds ==
    /\ genPc = "done" /\ genN >= 1
    /\ \E i \in 1..Len(genOut) : genRnd[i] = MaxRandom /\ DEq(genOut[i], HalfExtent)
    /\ \E i \in 1..Len(genOut) : genRnd[i] = DZero /\ DEq(genOut[i], DNeg(HalfExtent))

\* |angle - k * step / 10000| <= k * 2^-52 * (k * step / 10000), exactly
WithinRounding(angle, k, step) ==
    DLeq(DMul(DAbs(DSub(DMul(angle, DNat(10000)), DNat(k * step))), DPow2(52)),
         DNat(k * k * step))

\* C3 as amended: after K frame callbacks from a fresh mount rotation.y is
\* K x 0.0002 and rotation.x is K x 0.0001 up to the rounding of the K
\* double-precision additions (relative error at most K x 2^-52), so no
\* frame is skipped or counted twice.
DriftWithinRounding ==
    starsRef # << >> =>
        /\ WithinRounding(starsRef[1].y, frames, 2)
        /\ WithinRounding(starsRef[1].x, frames, 1)

\* after 60 frames the angles are near 0.012 and 0.006, and above them
DriftAfterSixty ==
    /\ frames = 60 /\ starsRef # << >>
    /\ DCmp(starsRef[1].y, JsLiteral(12, 1000)) > 0
    /\ DCmp(starsRef[1].x, JsLiteral(6, 1000)) > 0
    /\ WithinRounding(starsRef[1].y, 60, 2)

\* C3 as claimed: after K frame callbacks rotation.y equals K * 0.0002 and
\* rotation.x equals K * 0.0001, and after 60 frames they are 0.012 and 0.006.
DriftExact ==
    starsRef # << >> =>
        /\ starsRef[1].y = JsMul(DNat(frames), YStep)
        /\ starsRef[1].x = JsMul(DNat(frames), XStep)
        /\ frames = 60 => /\ starsRef[1].y = JsLiteral(12, 1000)
                          /\ starsRef[1].x = JsLiteral(6, 1000)

\* C4: within one mounted lifetime the generator runs once, and no frame
\* callback, re-render or other step changes the position buffer.
GeneratedOncePerMount ==
    /\ [](mounted => genRuns = 1)
    /\ [][(mounted /\ mounted') => starPositions' = starPositions]_vars

GeneratedOnceWitness ==
    /\ mounted /\ renders >= 2 /\ frames >= 1
    /\ genRuns = 1 /\ Len(starPositions) = ItemSize * StarCount

\* C5: once the star field is unmounted the frame callback is unsubscribed,
\* and no step taken while it is unmounted runs a frame callback, changes
\* the orientation or draws.
NoFramesAfterUnmount ==
    /\ [](~mounted => (~subscribed /\ starsRef = << >>))
    /\ [][(~mounted /\ ~mounted') =>
            UNCHANGED <<frames, renderCalls, draws, drawn, starsRef>>]_vars

\* unmounted after some frames, with a further request made since
UnmountedAfterFrames ==
    ~mounted /\ frames >= 1 /\ draws >= 1 /\ teardowns >= 2

\* C6: once the WebGL context of the canvas is lost, no later frame draws or
\* updates the orientation, no exception reaches the host, and drawing does
\* not start again by itself.
SurfaceLossStopsLoop ==
    /\ [](~hostError)
    /\ [][(contextLost /\ starsRef' # << >>) =>
            (draws' = draws /\ starsRef' = starsRef)]_vars
    /\ [][(mounted /\ mounted' /\ frames > draws) => draws' = draws]_vars

OrientationResetsOnMount ==
    (mounted /\ frames = 0) => starsRef = <<ZeroRotation>>

RemountedAfterFrames ==
    /\ mounted /\ mounts >= 2 /\ prevFrames >= 1
    /\ frames = 0 /\ starsRef = <<ZeroRotation>>

\* C9: every frame callback redraws the viewport exactly once, never zero
\* times and never twice, with the orientation as updated in that frame.
OneDrawPerFrame ==
    /\ [](draws = frames)
    /\ [][frames' = frames + 1 => (draws' = draws + 1 /\ drawn' = starsRef')]_vars

\* C10: a step that changes the orientation of the mounted points object is
\* a frame callback (a re-render, a context event or an event of the query
\* interface leaves both angles as they are), and every draw read an
\* orientation whose two angles come from the same frame: y is twice x.
SoleWriterOfOrientation ==
    /\ [][(starsRef # << >> /\ starsRef' # << >> /\ starsRef' # starsRef) =>
            frames' = frames + 1]_vars
    /\ [](drawn # << >> => DEq(drawn[1].y, DAdd(drawn[1].x, drawn[1].x)))

\* frames, a re-render and an answered query have all happened
PageBusyWitness ==
    /\ mounted /\ frames >= 2 /\ renders >= 2 /\ drawn = starsRef
    /\ Len(responses) >= 2 /\ loading

\* C11: a frame callback changes the two orientation angles and nothing else
\* of the star field: the coordinates of the position buffer and the camera,
\* at [0, 0, 5] with a field of view of 75, are after every frame as before it.
FrameChangesOnlyOrientation ==
    /\ [](mounted => camera = [position |-> <<0, 0, 5>>, fov |-> 75])
    /\ [][frames' = frames + 1 =>
            /\ starPositions' = starPositions
            /\ camera' = camera
            /\ starsRef' # starsRef
            /\ UNCHANGED <<mounted, mounts, renders, genRuns, subscribed,
                           contextLost, released, queryVars>>]_vars

\* frames have turned the points object over a full buffer
FramesOverFullBuffer ==
    /\ mounted /\ frames >= 2 /\ starsRef # <<ZeroRotation>>
    /\ Len(starPositions) = ItemSize * StarCount
    /\ camera = CanvasCamera

ZeroCountEmptyCloud ==
    genN = 0 =>
        /\ genPc # "error"
        /\ genPc = "done" => (genOut = << >> /\ AttributeCount(genOut) = 0)

ZeroCountRan ==
    /\ genPc = "done" /\ genN = 0 /\ Len(genOut) = 0 /\ genRnd = << >>

\* C14: when the render surface cannot be created at the first render, the
\* failure is surfaced once, a static background is shown in place of the star
\* field, and the rest of the page is rendered.
InitFailureDegrades ==
    (~webgl /\ failures > 0) => (failures = 1 /\ fallback /\ pageUp)

\* C17: a call made while the API is unavailable, for a key whose data was
\* fetched from the API before, returns the data fetched before and not an
\* error.
FallsBackToCache ==
    (nasaResult # << >> /\ ~nasaResult[1].up /\ Truthy(nasaResult[1].had)) =>
        nasaResult[1].out = DataDict(nasaResult[1].had[1])

\* C15: every submitted question gets its entry at the head of the history,
\* whether or not the backend can be reached.
EverySubmitAnswered ==
    [][(inflight # << >> /\ inflight' = << >>) =>
         /\ Len(responses') = Len(responses) + 1
         /\ responses'[1].question = inflight[1].question]_vars

\* C16: the history always ends with the seeded entry and is numbered from
\* the newest entry down to 1; it changes only when a request succeeds, and
\* then by one new entry put at its head, the entries it had staying as they
\* were and in their order.
HistoryGrowsAtHead ==
    /\ [](responses[Len(responses)] = SeededResponses[1])
    /\ [](\A i \in 1..Len(responses) : responses[i].id = Len(responses) - i + 1)
    /\ [][responses' # responses =>
            /\ inflight # << >>
            /\ responses' = <<[id |-> Len(responses) + 1,
                               question |-> inflight[1].question]>> \o responses]_vars
    /\ [][FetchOk => (Len(responses') = Len(responses) + 1
                      /\ Tail(responses') = responses)]_vars
    /\ [][FetchFail => responses' = responses]_vars

\* two different questions have been answered
TwoAnswered ==
    /\ Len(responses) = 3 /\ ~loading
    /\ responses[1].id = 3 /\ responses[3] = SeededResponses[1]
    /\ responses[1].question # responses[2].question

\* C20: loading is false at first, becomes true when a query that is not
\* blank is submitted and only then, is true exactly while a request is
\* pending, and is set back to false when the request settles, whether it
\* succeeded or failed; every request settles.
LoadingLifecycle ==
    /\ ~loading
    /\ [](loading <=> inflight # << >>)
    /\ [][(Submit /\ Trim(query) # << >>) => loading']_vars
    /\ [][(~loading /\ loading') => Trim(query) # << >>]_vars
    /\ [][(inflight # << >> /\ inflight' = << >>) => ~loading']_vars
    /\ (loading ~> ~loading)

\* a request was submitted and has settled
SettledAndIdle ==
    /\ ~loading /\ inflight = << >>
    /\ Len(responses) = 2 /\ query = << >>

\* C18: the vertical step is greater than the horizontal one, rotation.y is
\* twice rotation.x in every state of a mounted lifetime and greater than it
\* after the first frame, and no step makes either angle smaller.
VerticalTwiceHorizontal ==
    /\ [](DCmp(YStep, XStep) > 0)
    /\ [](starsRef # << >> =>
            /\ DEq(starsRef[1].y, DAdd(starsRef[1].x, starsRef[1].x))
            /\ frames >= 1 => DCmp(starsRef[1].y, starsRef[1].x) > 0)
    /\ [][(starsRef # << >> /\ starsRef' # << >>) =>
            /\ DLeq(starsRef[1].y, starsRef'[1].y)
            /\ DLeq(starsRef[1].x, starsRef'[1].x)]_vars

\* a second of frames and one more
DriftedApart ==
    /\ frames = 61 /\ starsRef # << >>
    /\ DCmp(starsRef[1].x, DZero) > 0
    /\ DCmp(starsRef[1].y, starsRef[1].x) > 0

\* C19: the loop of the generator makes at most as many iterations as there
\* are stars, each one counted, and is left after exactly that many;
\* iteration i stores to the indices 3i, 3i+1 and 3i+2 in that order, so
\* that at the end every index of the buffer has been stored to exactly once
\* and no index outside it has been stored to.
LoopWritesEachSlotOnce ==
    /\ [](genPc = "loop" =>
            /\ genI <= genN /\ Len(genLog) = ItemSize * genI
            /\ \A k \in 1..Len(genLog) : genLog[k] = k - 1)
    /\ [][genI' = genI + 1 =>
            genLog' = genLog \o <<3 * genI, 3 * genI + 1, 3 * genI + 2>>]_vars
    /\ [](genPc = "done" =>
            /\ genI = genN
            /\ Len(genLog) = Len(genOut) /\ Len(genOut) = 3 * genN
            /\ \A k \in 1..Len(genLog) : genLog[k] \in 0..(3 * genN - 1)
            /\ \A idx \in 0..(3 * genN - 1) :
                  Cardinality({k \in 1..Len(genLog) : genLog[k] = idx}) = 1
            /\ genOut = GenerateStars(genN, genRnd))
    /\ [][(genPc = "loop" /\ genPc' = "loop") =>
            (genI < genN /\ genI' = genI + 1)]_vars
    /\ [][(genPc = "loop" /\ genPc' # "loop") =>
            (genPc' = "done" /\ genI = genN)]_vars

\* a run for the full count has ended with every component stored to
LoopFilledBuffer ==
    /\ genPc = "done" /\ genN = StarCount /\ genI = StarCount
    /\ Len(genLog) = ItemSize * StarCount
    /\ \A k \in 1..Len(genOut) : ~DEq(genOut[k], DZero)

\* C21: a request that fails, whichever way, leaves the history and the text
\* of the input as they were and shows one alert; the alert is shown on a
\* failure only, and no exception ever leaves handleSubmit.
FailureIsHandled ==
    /\ [](~escaped)
    /\ [][FetchFail => /\ responses' = responses
                       /\ query' = query
                       /\ alerts' = alerts + 1]_vars
    /\ [][alerts' # alerts => (FetchFail /\ ~loading')]_vars

\* a request has failed: the alert was shown, the question is still in the
\* input and the history holds the seeded entry only
FailedAndKept ==
    /\ alerts = 1 /\ ~escaped /\ ~loading /\ inflight = << >>
    /\ handled = "sent" /\ query = <<Space, "Why?">>
    /\ responses = SeededResponses

\* C22: submitting a query that is empty or all white space sends no request,
\* leaves loading false and changes neither the history nor the text; no
\* pending request ever carries a blank question.
BlankSubmitIsNoOp ==
    /\ [][(Submit /\ Trim(query) = << >>) =>
            /\ ~loading /\ ~loading'
            /\ UNCHANGED <<query, responses, inflight, alerts>>]_vars
    /\ [](\A i \in 1..Len(inflight) : Trim(inflight[i].question) # << >>)

\* a query of white space only has been submitted
BlankSubmitted ==
    /\ handled = "blank" /\ query = <<Space>>
    /\ ~loading /\ inflight = << >> /\ responses = SeededResponses /\ alerts = 0

\* C23: at most one request is pending; a submission starts only while
\* loading is false; the pending request has captured the history as it still
\* is, so no step ever drops an entry of the history.
OneRequestAtATime ==
    /\ [](Len(inflight) <= 1)
    /\ [][Len(inflight') > Len(inflight) => (~loading /\ inflight = << >>)]_vars
    /\ [](\A i \in 1..Len(inflight) : inflight[i].seen = responses)
    /\ [][\A i \in 1..Len(responses) :
            \E j \in 1..Len(responses') : responses'[j] = responses[i]]_vars

\* a second request is pending after the first was answered
SecondRequestPending ==
    /\ loading /\ Len(inflight) = 1 /\ Len(responses) = 2
    /\ inflight[1].seen = responses

\* C24: no two entries of the history have the same id.
UniqueIds ==
    \A i, j \in 1..Len(responses) :
        i # j => responses[i].id # responses[j].id

\* the history holds three entries, with three ids
ThreeIds ==
    /\ Len(responses) = 3
    /\ Cardinality({responses[i].id : i \in 1..Len(responses)}) = 3

\* C25: a pending request carries the text the input held when the form was
\* submitted, and the entry a success adds stores that text, whatever the
\* input holds by then.
StoredQuestionIsSubmitted ==
    /\ [][Len(inflight') > Len(inflight) =>
            inflight'[Len(inflight')].question = query]_vars
    /\ [][Len(responses') > Len(responses) =>
            /\ inflight # << >>
            /\ responses'[1].question = inflight[1].question]_vars

\* an answer arrived after a quick question had replaced the text: the entry
\* holds the question that was typed
StoredDespiteQuickQuestion ==
    /\ Len(responses) = 2 /\ responses[1].question = <<Space, "Why?">>
    /\ cleared = Andromeda

\* C26: whenever the history grows the input is empty afterwards, whatever
\* it held before.
ClearedAfterSuccess ==
    [][Len(responses') > Len(responses) => query' = << >>]_vars

\* the clear has replaced a quick question picked while the request was
\* pending
QuickQuestionOverwritten ==
    /\ query = << >> /\ ~loading /\ cleared = BlackHoles
    /\ Len(responses) = 2 /\ responses[1].question # BlackHoles

\* C28: a call whose request failed returns the error value and has not
\* raised, whichever way the request failed, and leaves the cache as it was;
\* every call returns either the error value or a body the API answered with,
\* and what the cache holds is never the error value.
RequestFailureIsErrorValue ==
    /\ [](nasaResult # << >> =>
            /\ nasaResult[1].failed # << >> => nasaResult[1].out = ErrorDict
            /\ nasaResult[1].out # Raised
            /\ nasaResult[1].out \in {ErrorDict} \cup {DataDict(b) : b \in ApiBodies})
    /\ [][(nasaResult' # << >> /\ nasaResult'[1].failed # << >>
            /\ nasaResult' # nasaResult) => nasaCache' = nasaCache]_vars
    /\ [](\A k \in NasaKeys : nasaCache[k] # << >> => nasaCache[k][1] \in ApiBodies)

\* get_apod returned the error value for a body that was not JSON, with
\* nothing cached for its key
ErrorForBadBody ==
    /\ nasaResult # << >>
    /\ nasaResult[1].key = ApodKey(None)
    /\ nasaResult[1].failed = <<"JSONDecodeError">>
    /\ nasaResult[1].out = ErrorDict
    /\ nasaCache[ApodKey(None)] = << >>

\* C27: a mounted viewer has called fetchApod once; it is loading exactly
\* while that fetch is pending, with neither data nor message, and once it is
\* not loading it stays so until it is unmounted; it never holds both data and
\* a message: a success stores the data and leaves the message null, a
\* failure stores the message and leaves the data null.
ApodLifecycle ==
    /\ [](apodMounted => apodFetches = 1)
    /\ [](apodMounted => (apodLoading <=> apodMount \in apodPending))
    /\ [](apodMounted /\ apodLoading => apod = << >> /\ apodError = << >>)
    /\ [][(apodMounted /\ ~apodLoading /\ apodMounted') => ~apodLoading']_vars
    /\ [](apod = << >> \/ apodError = << >>)
    /\ [][(apodMounted /\ apodLoading /\ ~apodLoading') =>
            \/ apod' # << >> /\ apod'[1] \in ApodBodies /\ apodError' = << >> /\ ApodOk
            \/ apodError' # << >> /\ apod' = << >> /\ ApodFail]_vars
    /\ [][ApodOk => apodError' = apodError]_vars
    /\ [][ApodFail => apod' = apod]_vars

\* the second instance failed to load after it had rendered again, the fetch
\* of the first instance having settled as well
SecondViewerFailed ==
    /\ apodMounted /\ apodMount = 2 /\ apodRenders >= 1
    /\ ~apodLoading /\ apodPending = {}
    /\ apodError = <<ErrorMessage("status")>> /\ apod = << >>

====
